---- MODULE Spec2Model ----
(***************************************************************************)
(* Model of zoom-transcript-fetcher/transcript_fetcher.py: the pipeline    *)
(* main() runs over a transcript (model summary, Confluence summary page   *)
(* with the parent-page probe, Jira tickets per action item, engineer page *)
(* updates), with every external HTTP call answered nondeterministically   *)
(* by the destination.                                                     *)
(*                                                                         *)
(* Text is modelled as a sequence of one-character strings, so that the    *)
(* parsing code (strip, upper, startswith, split, lstrip, slicing) is       *)
(* computed character by character as Python computes it.                  *)
(***************************************************************************)
EXTENDS Integers, Sequences, FiniteSets, TLC

(***************************************************************************)
(* Bounds of the model.                                                    *)
(***************************************************************************)
\* the destination's page listing holds up to MaxCandidates pages
MaxCandidates == 2
\* the model's completion lists up to MaxItems action lines
MaxItems == 2
\* the first NumPersons entries of ENGINEER_PAGES are iterated
NumPersons == 2
\* commits other writers make to an engineer page between the run's read
\* and its update
MaxOtherCommits == 1
\* the clock advances up to MaxClock ticks while the runs go on
MaxClock == 2
\* the ACTION ITEMS section of a text given to the parsing code alone holds
\* up to MaxActionLines lines
MaxActionLines == 2

(***************************************************************************)
(* Python string operations, on sequences of characters.                   *)
(***************************************************************************)
LowerLetters ==
  << "a","b","c","d","e","f","g","h","i","j","k","l","m",
     "n","o","p","q","r","s","t","u","v","w","x","y","z" >>

UpperLetters ==
  << "A","B","C","D","E","F","G","H","I","J","K","L","M",
     "N","O","P","Q","R","S","T","U","V","W","X","Y","Z" >>

Digits == {"0","1","2","3","4","5","6","7","8","9"}

Whitespace == {" ", "\t", "\n", "\r"}

\* str.upper() of one character
UpperChar(c) ==
  IF \E i \in 1..26 : LowerLetters[i] = c
  THEN UpperLetters[CHOOSE i \in 1..26 : LowerLetters[i] = c]
  ELSE c

\* str.upper()
Upper(s) == [i \in 1..Len(s) |-> UpperChar(s[i])]

\* s[n:]  (Python slice from offset n, n >= 0)
From(s, n) == IF n >= Len(s) THEN << >> ELSE SubSeq(s, n + 1, Len(s))

\* s[:n]
Upto(s, n) == IF n >= Len(s) THEN s ELSE SubSeq(s, 1, n)

\* s.startswith(p)
StartsWith(s, p) == Len(s) >= Len(p) /\ SubSeq(s, 1, Len(p)) = p

\* s.lstrip(chars)
RECURSIVE LStrip(_, _)
LStrip(s, chars) ==
  IF s # << >> /\ Head(s) \in chars THEN LStrip(Tail(s), chars) ELSE s

\* s.rstrip(chars)
RECURSIVE RStrip(_, _)
RStrip(s, chars) ==
  IF s # << >> /\ s[Len(s)] \in chars
  THEN RStrip(SubSeq(s, 1, Len(s) - 1), chars)
  ELSE s

\* s.strip()
Strip(s) == RStrip(LStrip(s, Whitespace), Whitespace)

\* s.find(sep): the 1-based position of the first occurrence of sep, 0 if none
Find(s, sep) ==
  LET hits == {i \in 1..(Len(s) - Len(sep) + 1) :
                 SubSeq(s, i, i + Len(sep) - 1) = sep}
  IN IF hits = {} THEN 0 ELSE CHOOSE i \in hits : \A j \in hits : i <= j

\* sep in s
Contains(s, sep) == Find(s, sep) # 0

\* s.split(sep): every part
RECURSIVE Split(_, _)
Split(s, sep) ==
  LET k == Find(s, sep)
  IN IF k = 0 THEN << s >>
     ELSE << SubSeq(s, 1, k - 1) >> \o Split(From(s, k - 1 + Len(sep)), sep)

\* s.split(sep, 1)[-1]: the text after the first sep (s itself if there is none)
SplitOnceLast(s, sep) ==
  LET k == Find(s, sep)
  IN IF k = 0 THEN s ELSE From(s, k - 1 + Len(sep))

\* sep.join(parts)
RECURSIVE Join(_, _)
Join(parts, sep) ==
  IF parts = << >> THEN << >>
  ELSE IF Len(parts) = 1 THEN parts[1]
  ELSE parts[1] \o sep \o Join(Tail(parts), sep)

(***************************************************************************)
(* Text literals of the source.                                            *)
(***************************************************************************)
\* None (no character sequence: every character is a one-character string)
None == << "<None>" >>

\* Python truthiness of an optional string: neither None nor ''
Truthy(s) == s # None /\ s # << >>

KwTitle == << "T", "I", "T", "L", "E", ":" >>
KwSummary == << "S", "U", "M", "M", "A", "R", "Y", ":" >>
KwActionItems == << "A", "C", "T", "I", "O", "N", " ", "I", "T", "E", "M", "S", ":" >>
KwAssignee == << "A", "S", "S", "I", "G", "N", "E", "E", ":" >>
MarkerSpaced == << "|", " ", "A", "S", "S", "I", "G", "N", "E", "E", ":" >>
MarkerTight == << "|", "A", "S", "S", "I", "G", "N", "E", "E", ":" >>
NL == << "\n" >>

\* 'Meeting Summary & Transcript'
DefaultTitle ==
  << "M", "e", "e", "t", "i", "n", "g", " ", "S", "u", "m", "m", "a", "r", "y", " ", "&", " ", "T", "r", "a", "n", "s", "c", "r", "i", "p", "t" >>

\* the fixed summary_html texts of the degraded records, each one opaque token
NoKeyHtml == << "<p><em>OPENAI_API_KEY not set; skipping AI summary.</em></p>" >>
RequestFailedHtml == << "<p><em>OpenAI summary request failed</em></p>" >>

(***************************************************************************)
(* generate_meeting_summary_with_openai: parsing of the completion text.   *)
(***************************************************************************)
\* ParseActionLine taking numbered lines alone, not the lines that start
\* with a dash
ParseActionLineNumberedOnly(line_stripped) ==
  IF ~(line_stripped[1] \in Digits)
  THEN << >>
  ELSE
    LET t0 == line_stripped
        t1 == IF Contains(t0, << ".", " " >>)
              THEN SplitOnceLast(t0, << ".", " " >>)
              ELSE IF Contains(t0, << ")", " " >>)
                   THEN SplitOnceLast(t0, << ")", " " >>)
                   ELSE t0
        t2 == Strip(LStrip(LStrip(t1, {"-", " "}), {"*", " "}))
        marked == Contains(t2, MarkerSpaced) \/ Contains(t2, MarkerTight)
        parts == Split(t2, << "|" >>)
        action_text == IF marked THEN Strip(parts[1]) ELSE t2
        assignee_part == IF marked THEN Strip(parts[2]) ELSE << >>
        assignee == IF marked /\ StartsWith(Upper(assignee_part), KwAssignee)
                    THEN Strip(From(assignee_part, 9))
                    ELSE None
    IN IF action_text # << >>
       THEN << [task |-> action_text, assignee |-> assignee] >>
       ELSE << >>

\* lines 190-212: one non-blank line of the ACTION ITEMS section, stripped;
\* the items it appends (none or one)
ParseActionLine(line_stripped) ==
  IF ~(line_stripped[1] \in Digits \/ StartsWith(line_stripped, << "-" >>))
  THEN << >>
  ELSE
    LET t0 == line_stripped
        t1 == IF Contains(t0, << ".", " " >>)
              THEN SplitOnceLast(t0, << ".", " " >>)
              ELSE IF Contains(t0, << ")", " " >>)
                   THEN SplitOnceLast(t0, << ")", " " >>)
                   ELSE t0
        t2 == Strip(LStrip(LStrip(t1, {"-", " "}), {"*", " "}))
        marked == Contains(t2, MarkerSpaced) \/ Contains(t2, MarkerTight)
        parts == Split(t2, << "|" >>)
        action_text == IF marked THEN Strip(parts[1]) ELSE t2
        assignee_part == IF marked THEN Strip(parts[2]) ELSE << >>
        assignee == IF marked /\ StartsWith(Upper(assignee_part), KwAssignee)
                    THEN Strip(From(assignee_part, 9))
                    ELSE None
    IN IF action_text # << >>
       THEN << [task |-> action_text, assignee |-> assignee] >>
       ELSE << >>

\* lines 177-212: the loop body, on the parse state
\* [title, current_section, summary_lines, action_items]
ParseLine(st, line) ==
  LET line_stripped == Strip(line)
      up == Upper(line_stripped)
  IN IF StartsWith(up, KwTitle)
     THEN [st EXCEPT !.title = Strip(From(line_stripped, 6)),
                     !.current_section = "title"]
     ELSE IF StartsWith(up, KwSummary)
     THEN [st EXCEPT !.current_section = "summary"]
     ELSE IF StartsWith(up, KwActionItems)
     THEN [st EXCEPT !.current_section = "actions"]
     ELSE IF st.current_section = "summary" /\ line_stripped # << >>
     THEN [st EXCEPT !.summary_lines = Append(@, line)]
     ELSE IF st.current_section = "actions" /\ line_stripped # << >>
     THEN [st EXCEPT !.action_items = @ \o ParseActionLine(line_stripped)]
     ELSE st

RECURSIVE ParseLines(_, _)
ParseLines(st, lines) ==
  IF lines = << >> THEN st
  ELSE ParseLines(ParseLine(st, Head(lines)), Tail(lines))

\* ParseCompletion without the default of line 169: the summary is the
\* joined summary lines also when there is none
ParseCompletionNoFallback(content_text) ==
  LET st == ParseLines([title |-> DefaultTitle, current_section |-> "none",
                        summary_lines |-> << >>, action_items |-> << >>],
                       Split(content_text, NL))
  IN [title |-> st.title,
      summary_html |-> Strip(Join(st.summary_lines, NL)),
      action_items |-> st.action_items]

\* lines 166-221: the record parsed from a completion text
ParseCompletion(content_text) ==
  LET st == ParseLines([title |-> DefaultTitle, current_section |-> "none",
                        summary_lines |-> << >>, action_items |-> << >>],
                       Split(content_text, NL))
  IN [title |-> st.title,
      summary_html |-> IF st.summary_lines # << >>
                       THEN Strip(Join(st.summary_lines, NL))
                       ELSE content_text,
      action_items |-> st.action_items]

\* lines 111-115: the record returned when no OPENAI_API_KEY is set
NoKeyRecord ==
  [title |-> DefaultTitle, summary_html |-> NoKeyHtml, action_items |-> << >>]

\* lines 223-233: the record returned when the request is rejected or raises
RequestFailedRecord ==
  [title |-> DefaultTitle, summary_html |-> RequestFailedHtml,
   action_items |-> << >>]

(***************************************************************************)
(* The completion texts the model service may answer with.                 *)
(***************************************************************************)
ActionLines ==
  << << "1", ".", " ", "F", "i", "x", " ", "b", "u", "g", " ", "|", " ", "A", "S", "S", "I", "G", "N", "E", "E", ":", " ", "M", "a", "y", "a" >>,
     << "2", ")", " ", "S", "h", "i", "p", " ", "i", "t", " ", "|", "A", "S", "S", "I", "G", "N", "E", "E", ":", " ", "G", "u", "y" >>,
     << "-", " ", "W", "r", "i", "t", "e", " ", "d", "o", "c", "s" >>,
     << "3", ".", " ", "C", "a", "l", "l", " ", "E", "y", "a", "l", " ", "|", " ", "A", "S", "S", "I", "G", "N", "E", "E", ":", " ", "E", "y", "a", "l" >> >>

ActionLine(k) == ActionLines[((k - 1) % Len(ActionLines)) + 1]

\* a three-section completion with n action lines
WellFormed(n) ==
  Join(<< << "T", "I", "T", "L", "E", ":", " ", "S", "y", "n", "c" >>, << >>, << "S", "U", "M", "M", "A", "R", "Y", ":" >>, << "<", "p", ">", "o", "k", "<", "/", "p", ">" >>, << >>,
          << "A", "C", "T", "I", "O", "N", " ", "I", "T", "E", "M", "S", ":" >> >>
       \o [k \in 1..n |-> ActionLine(k)], NL)

\* a completion that deviates from the format: no TITLE: line, no SUMMARY:
\* section, a bulleted action without an assignee
Deviating ==
  Join(<< << "N", "o", "t", "e", "s" >>, << "a", "c", "t", "i", "o", "n", " ", "i", "t", "e", "m", "s", ":" >>, << "-", " ", "W", "r", "i", "t", "e", " ", "d", "o", "c", "s" >> >>, NL)

Completions == {WellFormed(0), WellFormed(MaxItems), Deviating}

(***************************************************************************)
(* Configuration and the destination's answers.                            *)
(***************************************************************************)
\* ENGINEER_PAGES (lines 16-21), in insertion order: name and page id
ENGINEER_PAGES ==
  << [name |-> "GUY", page_id |-> "491638"],
     [name |-> "EYAL", page_id |-> "491645"],
     [name |-> "ARVIN", page_id |-> "98393"],
     [name |-> "MAYA", page_id |-> "557203"] >>

\* the roster entries the run iterates
Roster == SubSeq(ENGINEER_PAGES, 1, NumPersons)

PageIds == {Roster[k].page_id : k \in 1..Len(Roster)}

\* 'limit': 10 of the page search (line 260)
ListLimit == 10

\* the id of the i-th page of the destination's listing
ListedPageId(i) == << ToString(500 - i) >>

\* the listings the destination may answer the page search with: no page,
\* or as many pages as the bound and the limit allow
Listings ==
  {[i \in 1..n |-> [id |-> ListedPageId(i)]] :
     n \in {0, IF MaxCandidates < ListLimit THEN MaxCandidates ELSE ListLimit}}

\* the texts the transcript file may hold
Transcripts == { << >>, << " ", "\n" >>, << " ", "h", "i", "\n" >> }

\* the accounts the user directory lists for a name, best match first
Directory(name) == << [accountId |-> << "acc1:" >> \o name],
                      [accountId |-> << "acc2:" >> \o name] >>

\* the answers of the user search: a failure status, or 200 with a list
SearchAnswers(name) ==
  { [status |-> 500, users |-> << >>],
    [status |-> 200, users |-> << >>],
    [status |-> 200, users |-> Directory(name)] }

\* the stages of a run, in order
Stages ==
  << "Parsing", "PublishingSummary", "CreatingWorkItems", "UpdatingLogs",
     "Done" >>

\* the clock counts half minutes
TicksPerMinute == 2

\* datetime.now().strftime('%Y-%m-%d_%H-%M') (line 555) at clock t: the date
\* and the hour (one token: the clock stays within the hour), then the
\* minute; the seconds are dropped
Strftime(t) == << "<Y-m-d_H>-", ToString(t \div TicksPerMinute) >>

VARIABLES
  pc,               \* the position of main() and of the function it is in
  file_text,        \* the text of the transcript file
  api_key,          \* whether OPENAI_API_KEY is set
  transcript,       \* main: transcript
  ai_result,        \* main: ai_result
  confluence_link,  \* main: confluence_link
  created_tickets,  \* main: created_tickets
  item_idx,         \* main: the index i of the action item at hand
  account_id,       \* create_jira_ticket: account_id
  pages,            \* find_valid_parent_pages: pages
  page_idx,         \* find_valid_parent_pages: the index of the page at hand
  valid_parent,     \* create_confluence_page: valid_parent
  eng_idx,          \* update_engineer_pages: the index of the roster entry
  contributions,    \* update_engineer_pages: contributions
  page,             \* update_engineer_pages: page (the document as read)
  docs,             \* destination: engineer page id -> [body, version]
  test_pages,       \* destination: the test pages that exist
  issues,           \* destination: the issues created, in order
  other_commits,    \* the number of commits another writer has made
  space_titles,     \* destination: the titles of the pages of the space
  now,              \* the clock datetime.now() reads, in ticks
  timestamp,        \* main: timestamp
  other_pub,        \* another run of the pipeline: its summary page creation
  other_log,        \* another run: its position in update_engineer_pages
  content,          \* a completion text given to the parsing code
  parsed,           \* the record parsed from content
  requests,         \* history: the requests sent, in order
  report,           \* history: the outcome lines printed, in order
  visited           \* history: the stages entered, in order

vars ==
  << pc, file_text, api_key, transcript, ai_result, confluence_link,
     created_tickets, item_idx, account_id, pages, page_idx, valid_parent,
     eng_idx, contributions, page, docs, test_pages, issues, other_commits,
     space_titles, now, timestamp, other_pub, other_log, content, parsed,
     requests, report, visited >>

mainLocals ==
  << transcript, ai_result, timestamp, confluence_link, created_tickets >>
itemLocals == << item_idx, account_id >>
probeLocals == << pages, page_idx, valid_parent >>
engLocals == << eng_idx, contributions, page >>
destination == << docs, test_pages, issues, other_commits, space_titles >>
\* what no step of the run changes: its inputs, the clock, the other run
\* and the texts given to the parsing code alone
inputs == << file_text, api_key, now, other_pub, other_log, content, parsed >>

\* the stage a position belongs to
StageOf(p) ==
  CASE p = "read_transcript" -> "Start"
    [] p = "aborted" -> "Aborted"
    [] p = "generate" -> "Parsing"
    [] p \in {"create_root", "probe_list", "probe_test", "probe_delete",
              "probe_return"} -> "PublishingSummary"
    [] p \in {"work_items", "create_issue"} -> "CreatingWorkItems"
    [] p \in {"update_logs", "extract", "read_page", "update_page"}
         -> "UpdatingLogs"
    [] p = "done" -> "Done"

\* the stages entered once the run moves to position p
Enter(p) ==
  IF StageOf(p) \in {"Start", "Aborted"}
       \/ (visited # << >> /\ visited[Len(visited)] = StageOf(p))
  THEN visited
  ELSE Append(visited, StageOf(p))

\* an engineer page before the run: the k-th roster entry's is at version k
InitialDoc(id) ==
  LET k == CHOOSE k \in 1..Len(Roster) : Roster[k].page_id = id
  IN [body |-> << "<p>log of ", Roster[k].name, "</p>" >>, version |-> k]

NoRecord == [title |-> << >>, summary_html |-> << >>, action_items |-> << >>]
NoPage == [body |-> << >>, version |-> 0]

\* the other run before its summary page creation, and before and after its
\* update_engineer_pages
NoPublish == [title |-> None, answer |-> "none", collision |-> FALSE]
OtherIdle == [pc |-> "idle", eng_idx |-> 0, page |-> NoPage, sent |-> << >>]

Init ==
  /\ pc = "read_transcript"
  /\ file_text \in Transcripts
  /\ api_key \in BOOLEAN
  /\ transcript = << >>
  /\ ai_result = NoRecord
  /\ confluence_link = None
  /\ created_tickets = << >>
  /\ item_idx = 0
  /\ account_id = None
  /\ pages = << >>
  /\ page_idx = 0
  /\ valid_parent = None
  /\ eng_idx = 0
  /\ contributions = << >>
  /\ page = NoPage
  /\ docs = [id \in PageIds |-> InitialDoc(id)]
  /\ test_pages = {}
  /\ issues = << >>
  /\ other_commits = 0
  /\ space_titles = {}
  /\ now = 0
  /\ timestamp = None
  /\ other_pub = NoPublish
  /\ other_log = OtherIdle
  /\ content = << >>
  /\ parsed = NoRecord
  /\ requests = << >>
  /\ report = << >>
  /\ visited = << >>

(***************************************************************************)
(* main, lines 525-537: read the transcript; an empty one ends the run.    *)
(***************************************************************************)
\* ReadTranscript without the strip() of line 531
ReadTranscriptNoStrip ==
  /\ pc = "read_transcript"
  /\ transcript' = file_text
  /\ IF transcript' = << >>
     THEN /\ pc' = "aborted"
          /\ report' = Append(report, [line |-> "transcript_empty"])
     ELSE /\ pc' = "generate"
          /\ report' = Append(report, [line |-> "transcript_loaded"])
  /\ visited' = Enter(pc')
  /\ UNCHANGED << ai_result, timestamp, confluence_link, created_tickets,
                  itemLocals, probeLocals, engLocals, destination, inputs,
                  requests >>

ReadTranscript ==
  /\ pc = "read_transcript"
  /\ transcript' = Strip(file_text)
  /\ IF transcript' = << >>
     THEN /\ pc' = "aborted"
          /\ report' = Append(report, [line |-> "transcript_empty"])
     ELSE /\ pc' = "generate"
          /\ report' = Append(report, [line |-> "transcript_loaded"])
  /\ visited' = Enter(pc')
  /\ UNCHANGED << ai_result, timestamp, confluence_link, created_tickets,
                  itemLocals, probeLocals, engLocals, destination, inputs,
                  requests >>

(***************************************************************************)
(* generate_meeting_summary_with_openai, lines 103-233 (main line 542).    *)
(***************************************************************************)
\* lines 162-221: the records parsed from the texts a completion may hold
ParsedCompletions == {ParseCompletion(c) : c \in Completions}

\* the record of the run, whether a completion request was sent and how it
\* was answered
SummaryOutcomes ==
  IF ~api_key
  THEN {[sent |-> FALSE, answer |-> "none", record |-> NoKeyRecord]}
  ELSE {[sent |-> TRUE, answer |-> "rejected", record |-> RequestFailedRecord]}
       \cup {[sent |-> TRUE, answer |-> "accepted",
               record |-> r] : r \in ParsedCompletions}

GenerateSummary ==
  /\ pc = "generate"
  /\ \E o \in SummaryOutcomes :
       /\ ai_result' = o.record
       /\ timestamp' = Strftime(now)
       /\ requests' = IF o.sent
                      THEN Append(requests, [kind |-> "completion",
                                             answer |-> o.answer])
                      ELSE requests
  /\ pc' = "create_root"
  /\ visited' = Enter(pc')
  /\ report' = Append(report, [line |-> "generated",
                               items |-> Len(ai_result'.action_items)])
  /\ UNCHANGED << transcript, confluence_link, created_tickets, itemLocals,
                  probeLocals, engLocals, destination, inputs >>

(***************************************************************************)
(* format_transcript_for_confluence (lines 236-250) and the title of       *)
(* main, lines 554-556.                                                    *)
(***************************************************************************)
format_transcript_for_confluence(rec) ==
  << "<h1>" >> \o rec.title \o << "</h1>\n\n<h2>Summary</h2>\n" >>
    \o rec.summary_html
    \o << "\n\n<p><em>Generated on ", "<now>", "</em></p>" >>

\* line 556: f"{ai_result['title']} - {timestamp}"
TitleAt(title, stamp) == title \o << " - " >> \o stamp

unique_title(rec) == TitleAt(rec.title, timestamp)

\* 'N/A'
NotAvailable == << "N", "/", "A" >>

\* the page data of a created page (with the webui link the destination
\* gives it), and the None returned without one
PageData == [ok |-> TRUE, webui |-> << "/spaces/S/pages/900" >>]
NoPageData == [ok |-> FALSE, webui |-> << >>]

\* main, lines 562-571: the link of the created page, 'N/A' without one
LinkOf(result) ==
  IF result.ok THEN << "<base_url>", "/wiki" >> \o result.webui
  ELSE NotAvailable

\* CreatePageRequest without line 503: the ancestors are never added
CreatePageRequestAtRoot(ancestors, answer) ==
  [kind |-> "create_page", title |-> unique_title(ai_result),
   content |-> format_transcript_for_confluence(ai_result),
   ancestors |-> << >>, answer |-> answer,
   collision |-> answer = "rejected"
                   /\ unique_title(ai_result) \in space_titles]

\* the page creation request of create_confluence_page (lines 476-486, 503)
CreatePageRequest(ancestors, answer) ==
  [kind |-> "create_page", title |-> unique_title(ai_result),
   content |-> format_transcript_for_confluence(ai_result),
   ancestors |-> ancestors, answer |-> answer,
   collision |-> answer = "rejected"
                   /\ unique_title(ai_result) \in space_titles]

\* ReturnToMain with the block of lines 573-618 left out: main turns to the
\* engineer pages at once
ReturnToMainSkipsItems(result, lines) ==
  /\ confluence_link' = LinkOf(result)
  /\ report' = report \o lines
                 \o << [line |-> IF result.ok THEN "uploaded"
                                 ELSE "upload_failed"] >>
  /\ pc' = "update_logs"
  /\ visited' = Enter(pc')
  /\ item_idx' = 1
  /\ account_id' = None
  /\ created_tickets' = << >>
  /\ pages' = << >>
  /\ page_idx' = 0
  /\ valid_parent' = None

\* create_confluence_page returns result (page data or None) to main, which
\* sets confluence_link (lines 562-571) and turns to the action items
ReturnToMain(result, lines) ==
  /\ confluence_link' = LinkOf(result)
  /\ report' = report \o lines
                 \o << [line |-> IF result.ok THEN "uploaded"
                                 ELSE "upload_failed"] >>
  /\ pc' = "work_items"
  /\ visited' = Enter(pc')
  /\ item_idx' = 1
  /\ account_id' = None
  /\ created_tickets' = << >>
  /\ pages' = << >>
  /\ page_idx' = 0
  /\ valid_parent' = None

\* lines 475-492 and 510-523: the creation at the space root
CreateAtRoot ==
  /\ pc = "create_root"
  /\ \/ \* accepted (200, 201): the space holds no page of this title
        /\ unique_title(ai_result) \notin space_titles
        /\ requests' = Append(requests, CreatePageRequest(<< >>, "accepted"))
        /\ space_titles' = space_titles \cup {unique_title(ai_result)}
        /\ ReturnToMain(PageData, << [line |-> "page_created"] >>)
     \/ \* rejected
        /\ requests' = Append(requests, CreatePageRequest(<< >>, "rejected"))
        /\ pc' = "probe_list"
        /\ report' = Append(report, [line |-> "root_creation_failed"])
        /\ UNCHANGED << confluence_link, created_tickets, itemLocals,
                        probeLocals, visited, space_titles >>
  /\ UNCHANGED << transcript, ai_result, timestamp, engLocals, docs,
                  test_pages, issues, other_commits, inputs >>

(***************************************************************************)
(* find_valid_parent_pages, lines 252-306.                                 *)
(***************************************************************************)
\* lines 256-270: the page search
ListPages ==
  /\ pc = "probe_list"
  /\ \/ \* status 200 with a listing
        \E l \in Listings :
          /\ requests' = Append(requests, [kind |-> "list_pages",
                                           answer |-> "accepted",
                                           listing |-> l])
          /\ pages' = l
          /\ IF l = << >>
             THEN pc' = "probe_return" /\ page_idx' = 0
             ELSE pc' = "probe_test" /\ page_idx' = 1
     \/ \* any other status
        /\ requests' = Append(requests, [kind |-> "list_pages",
                                         answer |-> "rejected",
                                         listing |-> << >>])
        /\ pc' = "probe_return"
        /\ UNCHANGED << pages, page_idx >>
  /\ valid_parent' = None
  /\ UNCHANGED << mainLocals, itemLocals, engLocals, destination, inputs,
                  report, visited >>

\* lines 271-294 and 303-306: the test creation under the page at hand
TestCreate ==
  /\ pc = "probe_test"
  /\ \/ \* accepted (200, 201): the test page exists
        /\ requests' = Append(requests, [kind |-> "test_create",
                                         parent |-> pages[page_idx].id,
                                         answer |-> "accepted"])
        /\ test_pages' = test_pages \cup {[parent |-> pages[page_idx].id]}
        /\ pc' = "probe_delete"
        /\ UNCHANGED << page_idx, report >>
     \/ \* rejected: the next page, or None after the last
        /\ requests' = Append(requests, [kind |-> "test_create",
                                         parent |-> pages[page_idx].id,
                                         answer |-> "rejected"])
        /\ report' = Append(report, [line |-> "cannot_create_under",
                                     id |-> pages[page_idx].id])
        /\ IF page_idx < Len(pages)
           THEN pc' = "probe_test" /\ page_idx' = page_idx + 1
           ELSE pc' = "probe_return" /\ page_idx' = page_idx
        /\ UNCHANGED test_pages
  /\ UNCHANGED << mainLocals, itemLocals, pages, valid_parent, engLocals,
                  docs, issues, other_commits, space_titles, inputs, visited >>

\* DeleteTestPage returning the last page listed instead of the page tested
DeleteTestPageReturnsLast ==
  /\ pc = "probe_delete"
  /\ \/ /\ requests' = Append(requests, [kind |-> "delete_page",
                                         parent |-> pages[page_idx].id,
                                         answer |-> "accepted"])
        /\ test_pages' = test_pages \ {[parent |-> pages[page_idx].id]}
     \/ /\ requests' = Append(requests, [kind |-> "delete_page",
                                         parent |-> pages[page_idx].id,
                                         answer |-> "rejected"])
        /\ UNCHANGED test_pages
  /\ valid_parent' = pages[Len(pages)].id
  /\ report' = Append(report, [line |-> "can_create_under",
                               id |-> pages[page_idx].id])
  /\ pc' = "probe_return"
  /\ UNCHANGED << mainLocals, itemLocals, pages, page_idx, engLocals, docs,
                  issues, other_commits, space_titles, inputs, visited >>

\* lines 295-302: the deletion of the test page, its answer ignored
DeleteTestPage ==
  /\ pc = "probe_delete"
  /\ \/ \* the destination deletes the page
        /\ requests' = Append(requests, [kind |-> "delete_page",
                                         parent |-> pages[page_idx].id,
                                         answer |-> "accepted"])
        /\ test_pages' = test_pages \ {[parent |-> pages[page_idx].id]}
     \/ \* the destination refuses
        /\ requests' = Append(requests, [kind |-> "delete_page",
                                         parent |-> pages[page_idx].id,
                                         answer |-> "rejected"])
        /\ UNCHANGED test_pages
  /\ valid_parent' = pages[page_idx].id
  /\ report' = Append(report, [line |-> "can_create_under",
                               id |-> pages[page_idx].id])
  /\ pc' = "probe_return"
  /\ UNCHANGED << mainLocals, itemLocals, pages, page_idx, engLocals, docs,
                  issues, other_commits, space_titles, inputs, visited >>

(***************************************************************************)
(* create_confluence_page, lines 496-523: after the probe.                 *)
(***************************************************************************)
\* lines 498-505 and 510-523: the creation under the parent found
CreateUnderParent ==
  /\ pc = "probe_return"
  /\ valid_parent # None
  /\ \/ \* accepted (200, 201): the space holds no page of this title
        /\ unique_title(ai_result) \notin space_titles
        /\ requests' = Append(requests,
                              CreatePageRequest(<< valid_parent >>, "accepted"))
        /\ space_titles' = space_titles \cup {unique_title(ai_result)}
        /\ ReturnToMain(PageData, << [line |-> "page_created"] >>)
     \/ \* rejected
        /\ requests' = Append(requests,
                              CreatePageRequest(<< valid_parent >>, "rejected"))
        /\ ReturnToMain(NoPageData, << [line |-> "page_creation_failed"] >>)
        /\ UNCHANGED space_titles
  /\ UNCHANGED << transcript, ai_result, timestamp, engLocals, docs,
                  test_pages, issues, other_commits, inputs >>

\* lines 506-508: no parent found
NoValidParent ==
  /\ pc = "probe_return"
  /\ valid_parent = None
  /\ ReturnToMain(NoPageData, << [line |-> "no_valid_parent"] >>)
  /\ UNCHANGED << transcript, ai_result, timestamp, engLocals, destination,
                  inputs, requests >>

(***************************************************************************)
(* main, lines 573-618, with create_jira_ticket (lines 330-381) and        *)
(* get_jira_user_by_name (lines 308-328).                                  *)
(***************************************************************************)
\* line 591: task[:97] + '...' if len(task) > 100 else task
TicketSummary(task) ==
  IF Len(task) > 100 THEN Upto(task, 97) \o << ".", ".", "." >> ELSE task

\* TicketDescription with 'N/A' for the meeting notes, whatever the link
TicketDescriptionNeverLinks(task) ==
  << "Action item from meeting: " >> \o ai_result.title
    \o << "\n\nTask: " >> \o task
    \o << "\n\nMeeting notes: " >> \o NotAvailable

\* lines 594-598
TicketDescription(task) ==
  << "Action item from meeting: " >> \o ai_result.title
    \o << "\n\nTask: " >> \o task
    \o << "\n\nMeeting notes: " >> \o confluence_link

\* lines 322-328: the account id of a user search answer, None without one
AccountOf(ans) ==
  IF ans.status = 200 /\ ans.users # << >> THEN ans.users[1].accountId
  ELSE None

\* the keys the work-tracking system gives the issues it creates, in order
IssueKey(n) == << "DUB-", ToString(n) >>

\* NoActionItems returning from main instead of going on
NoActionItemsEndsRun ==
  /\ pc = "work_items"
  /\ ai_result.action_items = << >>
  /\ report' = Append(report, [line |-> "no_action_items"])
  /\ pc' = "done"
  /\ visited' = Enter(pc')
  /\ UNCHANGED << mainLocals, itemLocals, probeLocals, engLocals, destination,
                  inputs, requests >>

\* line 574 with lines 617-618: no action items, no tickets
NoActionItems ==
  /\ pc = "work_items"
  /\ ai_result.action_items = << >>
  /\ report' = Append(report, [line |-> "no_action_items"])
  /\ pc' = "update_logs"
  /\ visited' = Enter(pc')
  /\ UNCHANGED << mainLocals, itemLocals, probeLocals, engLocals, destination,
                  inputs, requests >>

\* lines 356-363 with 308-328: the user search for the item's assignee
SearchUser ==
  /\ pc = "work_items"
  /\ ai_result.action_items # << >>
  /\ LET assignee == ai_result.action_items[item_idx].assignee
     IN /\ Truthy(assignee)
        /\ \E ans \in SearchAnswers(assignee) :
             /\ requests' = Append(requests,
                                   [kind |-> "user_search", item |-> item_idx,
                                    query |-> assignee,
                                    found |-> AccountOf(ans)])
             /\ account_id' = AccountOf(ans)
             /\ report' = Append(report,
                                 [line |-> IF Truthy(account_id')
                                           THEN "assigning"
                                           ELSE "could_not_find_user",
                                  item |-> item_idx])
  /\ pc' = "create_issue"
  /\ UNCHANGED << mainLocals, item_idx, probeLocals, engLocals, destination,
                  inputs, visited >>

\* CreateIssueRequest assigning by the name given instead of the account id
CreateIssueRequestByName(answer) ==
  LET task == ai_result.action_items[item_idx].task
  IN [kind |-> "create_issue", item |-> item_idx,
      summary |-> TicketSummary(task),
      description |-> TicketDescription(task),
      assignee |-> ai_result.action_items[item_idx].assignee,
      answer |-> answer]

\* the issue creation request of create_jira_ticket (lines 340-360, 370)
CreateIssueRequest(answer) ==
  LET task == ai_result.action_items[item_idx].task
  IN [kind |-> "create_issue", item |-> item_idx,
      summary |-> TicketSummary(task),
      description |-> TicketDescription(task),
      assignee |-> IF Truthy(account_id) THEN account_id ELSE None,
      answer |-> answer]

\* AfterItem with a failed creation ending the run
AfterItemHaltsOnFailure(tickets, lines) ==
  /\ created_tickets' = tickets
  /\ account_id' = None
  /\ IF tickets = created_tickets
     THEN /\ item_idx' = item_idx
          /\ pc' = "aborted"
          /\ report' = report \o lines
     ELSE IF item_idx < Len(ai_result.action_items)
     THEN /\ item_idx' = item_idx + 1
          /\ pc' = "work_items"
          /\ report' = report \o lines
     ELSE /\ item_idx' = item_idx
          /\ pc' = "update_logs"
          /\ report' = report \o lines \o
               << [line |-> "tickets_created", n |-> Len(tickets)] >>
  /\ visited' = Enter(pc')

\* AfterItem with a failed creation ending the loop over the items
AfterItemBreaksOnFailure(tickets, lines) ==
  /\ created_tickets' = tickets
  /\ account_id' = None
  /\ IF item_idx < Len(ai_result.action_items) /\ tickets # created_tickets
     THEN /\ item_idx' = item_idx + 1
          /\ pc' = "work_items"
          /\ report' = report \o lines
     ELSE /\ item_idx' = item_idx
          /\ pc' = "update_logs"
          /\ report' = report \o lines \o
               IF tickets # << >>
               THEN << [line |-> "tickets_created", n |-> Len(tickets)] >>
               ELSE << >>
  /\ visited' = Enter(pc')

\* AfterItem with a failed creation tried again for the same item
AfterItemRetriesFailure(tickets, lines) ==
  /\ created_tickets' = tickets
  /\ account_id' = None
  /\ IF tickets = created_tickets
     THEN /\ item_idx' = item_idx
          /\ pc' = "work_items"
          /\ report' = report \o lines
     ELSE IF item_idx < Len(ai_result.action_items)
     THEN /\ item_idx' = item_idx + 1
          /\ pc' = "work_items"
          /\ report' = report \o lines
     ELSE /\ item_idx' = item_idx
          /\ pc' = "update_logs"
          /\ report' = report \o lines \o
               << [line |-> "tickets_created", n |-> Len(tickets)] >>
  /\ visited' = Enter(pc')

\* lines 610-616: after the item's ticket, the next item or the end of the
\* loop; tickets is created_tickets after this item
AfterItem(tickets, lines) ==
  /\ created_tickets' = tickets
  /\ account_id' = None
  /\ IF item_idx < Len(ai_result.action_items)
     THEN /\ item_idx' = item_idx + 1
          /\ pc' = "work_items"
          /\ report' = report \o lines
     ELSE /\ item_idx' = item_idx
          /\ pc' = "update_logs"
          /\ report' = report \o lines \o
               IF tickets # << >>
               THEN << [line |-> "tickets_created", n |-> Len(tickets)] >>
               ELSE << >>
  /\ visited' = Enter(pc')

\* CreateIssue putting the new key at the head of created_tickets
CreateIssuePrependsKey ==
  /\ \/ pc = "create_issue"
     \/ /\ pc = "work_items"
        /\ ai_result.action_items # << >>
        /\ ~Truthy(ai_result.action_items[item_idx].assignee)
  /\ \/ /\ requests' = Append(requests, CreateIssueRequest("accepted"))
        /\ issues' = Append(issues, CreateIssueRequest("accepted"))
        /\ AfterItem(<< IssueKey(Len(issues) + 1) >> \o created_tickets,
                     << [line |-> "ticket_created", item |-> item_idx] >>)
     \/ /\ requests' = Append(requests, CreateIssueRequest("rejected"))
        /\ UNCHANGED issues
        /\ AfterItem(created_tickets,
                     << [line |-> "ticket_failed", item |-> item_idx] >>)
  /\ UNCHANGED << transcript, ai_result, timestamp, confluence_link,
                  probeLocals, engLocals, docs, test_pages, other_commits,
                  space_titles, inputs >>

\* lines 370-381 and 602-613: the issue creation for the item at hand
CreateIssue ==
  /\ \/ pc = "create_issue"
     \/ /\ pc = "work_items"
        /\ ai_result.action_items # << >>
        /\ ~Truthy(ai_result.action_items[item_idx].assignee)
  /\ \/ \* accepted (200, 201)
        /\ requests' = Append(requests, CreateIssueRequest("accepted"))
        /\ issues' = Append(issues, CreateIssueRequest("accepted"))
        /\ AfterItem(Append(created_tickets, IssueKey(Len(issues) + 1)),
                     << [line |-> "ticket_created", item |-> item_idx] >>)
     \/ \* rejected
        /\ requests' = Append(requests, CreateIssueRequest("rejected"))
        /\ UNCHANGED issues
        /\ AfterItem(created_tickets,
                     << [line |-> "ticket_failed", item |-> item_idx] >>)
  /\ UNCHANGED << transcript, ai_result, timestamp, confluence_link,
                  probeLocals, engLocals, docs, test_pages, other_commits,
                  space_titles, inputs >>

(***************************************************************************)
(* update_engineer_pages, lines 383-445 (main lines 620-625).              *)
(***************************************************************************)
\* the end of the iteration of roster entry eng_idx: the next entry, or the
\* return to main, which prints Done (line 625)
NextEngineer(lines) ==
  /\ contributions' = << >>
  /\ page' = NoPage
  /\ IF eng_idx < Len(Roster)
     THEN /\ eng_idx' = eng_idx + 1
          /\ pc' = "extract"
          /\ report' = report \o lines
     ELSE /\ eng_idx' = eng_idx
          /\ pc' = "done"
          /\ report' = report \o lines \o << [line |-> "done"] >>
  /\ visited' = Enter(pc')

\* EnterUpdateLogs without the test of OPENAI_API_KEY
EnterUpdateLogsNoKeyCheck ==
  /\ pc = "update_logs"
  /\ IF Roster = << >>
     THEN /\ pc' = "done"
          /\ report' = Append(report, [line |-> "done"])
          /\ UNCHANGED eng_idx
     ELSE /\ pc' = "extract"
          /\ eng_idx' = 1
          /\ UNCHANGED report
  /\ visited' = Enter(pc')
  /\ UNCHANGED << mainLocals, itemLocals, probeLocals, contributions, page,
                  destination, inputs, requests >>

\* main lines 621-625 and lines 385-394: nothing to do without a roster or
\* without OPENAI_API_KEY
EnterUpdateLogs ==
  /\ pc = "update_logs"
  /\ IF Roster = << >> \/ ~api_key
     THEN /\ pc' = "done"
          /\ report' = Append(report, [line |-> "done"])
          /\ UNCHANGED eng_idx
     ELSE /\ pc' = "extract"
          /\ eng_idx' = 1
          /\ UNCHANGED report
  /\ visited' = Enter(pc')
  /\ UNCHANGED << mainLocals, itemLocals, probeLocals, contributions, page,
                  destination, inputs, requests >>

\* ExtractContributions without the test for NONE in the text
ExtractContributionsIgnoresSentinel ==
  /\ pc = "extract"
  /\ LET name == Roster[eng_idx].name
     IN \/ /\ requests' = Append(requests, [kind |-> "extract", name |-> name,
                                            answer |-> "accepted"])
           /\ contributions' = << "<contributions of ", name, ">" >>
           /\ pc' = "read_page"
           /\ UNCHANGED << eng_idx, page, report, visited >>
        \/ /\ requests' = Append(requests, [kind |-> "extract", name |-> name,
                                            answer |-> "NONE"])
           /\ contributions' = << "NONE" >>
           /\ pc' = "read_page"
           /\ UNCHANGED << eng_idx, page, report, visited >>
        \/ /\ requests' = Append(requests, [kind |-> "extract", name |-> name,
                                            answer |-> "rejected"])
           /\ NextEngineer(<< >>)
  /\ UNCHANGED << mainLocals, itemLocals, probeLocals, destination, inputs >>

\* lines 399-417: the extraction of the engineer's contributions
ExtractContributions ==
  /\ pc = "extract"
  /\ LET name == Roster[eng_idx].name
     IN \/ \* status 200 with contributions
           /\ requests' = Append(requests, [kind |-> "extract", name |-> name,
                                            answer |-> "accepted"])
           /\ contributions' = << "<contributions of ", name, ">" >>
           /\ pc' = "read_page"
           /\ UNCHANGED << eng_idx, page, report, visited >>
        \/ \* status 200 with NONE in the text
           /\ requests' = Append(requests, [kind |-> "extract", name |-> name,
                                            answer |-> "NONE"])
           /\ NextEngineer(<< >>)
        \/ \* any other status
           /\ requests' = Append(requests, [kind |-> "extract", name |-> name,
                                            answer |-> "rejected"])
           /\ NextEngineer(<< >>)
  /\ UNCHANGED << mainLocals, itemLocals, probeLocals, destination, inputs >>

\* lines 419-426: the read of the engineer's page
ReadPage ==
  /\ pc = "read_page"
  /\ LET page_id == Roster[eng_idx].page_id
     IN \/ \* status 200: the body and the version of the page
           /\ requests' = Append(requests, [kind |-> "read_page",
                                            page_id |-> page_id,
                                            answer |-> "accepted",
                                            read |-> docs[page_id]])
           /\ page' = docs[page_id]
           /\ pc' = "update_page"
           /\ UNCHANGED << eng_idx, contributions, report, visited >>
        \/ \* any other status
           /\ requests' = Append(requests, [kind |-> "read_page",
                                            page_id |-> page_id,
                                            answer |-> "rejected",
                                            read |-> NoPage])
           /\ NextEngineer(<< >>)
  /\ UNCHANGED << mainLocals, itemLocals, probeLocals, destination, inputs >>

\* line 429: the new section
NewSection ==
  << "\n<h3>" >> \o ai_result.title \o << " - ", "<date>", "</h3>\n" >>
    \o contributions \o << "\n" >>

\* UpdateRequest carrying the version read, not incremented
UpdateRequestSameVersion(answer) ==
  [kind |-> "update_page", page_id |-> Roster[eng_idx].page_id,
   body |-> page.body \o NewSection, version |-> page.version,
   answer |-> answer]

\* lines 433-444: the update request
UpdateRequest(answer) ==
  [kind |-> "update_page", page_id |-> Roster[eng_idx].page_id,
   body |-> page.body \o NewSection, version |-> page.version + 1,
   answer |-> answer]

\* UpdatePage at a destination that stores every update: the last writer wins
UpdatePageLastWriterWins ==
  /\ pc = "update_page"
  /\ LET page_id == Roster[eng_idx].page_id
         req == UpdateRequest("accepted")
     IN \/ /\ requests' = Append(requests, req)
           /\ docs' = [docs EXCEPT ![page_id] =
                         [body |-> req.body, version |-> req.version]]
        \/ /\ requests' = Append(requests, UpdateRequest("rejected"))
           /\ UNCHANGED docs
  /\ NextEngineer(<< [line |-> "updated", name |-> Roster[eng_idx].name] >>)
  /\ UNCHANGED << mainLocals, itemLocals, probeLocals, test_pages, issues,
                  other_commits, space_titles, inputs >>

\* lines 428-445: the update of the engineer's page, its answer ignored
UpdatePage ==
  /\ pc = "update_page"
  /\ LET page_id == Roster[eng_idx].page_id
         req == UpdateRequest("accepted")
     IN \/ \* the version is the page's next: the destination stores the page
           /\ req.version = docs[page_id].version + 1
           /\ requests' = Append(requests, req)
           /\ docs' = [docs EXCEPT ![page_id] =
                         [body |-> req.body, version |-> req.version]]
        \/ \* the version is not the page's next: a conflict
           /\ req.version # docs[page_id].version + 1
           /\ requests' = Append(requests, UpdateRequest("conflict"))
           /\ UNCHANGED docs
        \/ \* rejected for another reason
           /\ requests' = Append(requests, UpdateRequest("rejected"))
           /\ UNCHANGED docs
  /\ NextEngineer(<< [line |-> "updated", name |-> Roster[eng_idx].name] >>)
  /\ UNCHANGED << mainLocals, itemLocals, probeLocals, test_pages, issues,
                  other_commits, space_titles, inputs >>

(***************************************************************************)
(* The destination's other writers: a commit to the engineer page the run  *)
(* has read and is about to update.  (A commit made before the read only   *)
(* gives the run another page to read; one made after the run's update is  *)
(* not seen by the run.)                                                   *)
(***************************************************************************)
OtherWriterCommit ==
  /\ pc = "update_page"
  /\ other_commits < MaxOtherCommits
  /\ other_commits' = other_commits + 1
  /\ docs' = [docs EXCEPT ![Roster[eng_idx].page_id] =
                [body |-> @.body \o << "<section of another writer>" >>,
                 version |-> @.version + 1]]
  /\ UNCHANGED << pc, mainLocals, itemLocals, probeLocals, engLocals,
                  test_pages, issues, space_titles, inputs, requests, report,
                  visited >>

(***************************************************************************)
(* The clock, and another run of the pipeline publishing its summary page  *)
(* in the same space (main lines 554-560 with create_confluence_page).     *)
(***************************************************************************)
Tick ==
  /\ now < MaxClock
  /\ now' = now + 1
  /\ UNCHANGED << pc, mainLocals, itemLocals, probeLocals, engLocals,
                  destination, file_text, api_key, other_pub, other_log,
                  content, parsed, requests, report, visited >>

\* the titles a run's record may carry
RecordTitles ==
  {r.title : r \in ParsedCompletions \cup {NoKeyRecord, RequestFailedRecord}}

\* the other run reads the clock, builds its title and has its page created
\* (at the root or under a parent) or not
OtherRunPublish ==
  /\ other_pub = NoPublish
  /\ \E t \in RecordTitles :
       LET title == TitleAt(t, Strftime(now))
       IN \/ \* accepted: the space holds no page of this title
             /\ title \notin space_titles
             /\ other_pub' = [title |-> title, answer |-> "accepted",
                              collision |-> FALSE]
             /\ space_titles' = space_titles \cup {title}
          \/ \* rejected
             /\ other_pub' = [title |-> title, answer |-> "rejected",
                              collision |-> title \in space_titles]
             /\ UNCHANGED space_titles
  /\ UNCHANGED << pc, mainLocals, itemLocals, probeLocals, engLocals, docs,
                  test_pages, issues, other_commits, file_text, api_key, now,
                  other_log, content, parsed, requests, report, visited >>

(***************************************************************************)
(* Another run of the pipeline in its update_engineer_pages (lines         *)
(* 383-445), on the same engineer pages: other_log holds its position, the *)
(* roster entry at hand, the page as it read it and the update requests it *)
(* has sent.                                                               *)
(***************************************************************************)
\* the end of the other run's iteration of a roster entry
OtherNextEngineer(sent) ==
  other_log' = IF other_log.eng_idx < Len(Roster)
               THEN [pc |-> "extract", eng_idx |-> other_log.eng_idx + 1,
                     page |-> NoPage, sent |-> sent]
               ELSE [pc |-> "done", eng_idx |-> other_log.eng_idx,
                     page |-> NoPage, sent |-> sent]

\* line 429 of the other run: its new section
OtherNewSection ==
  << "\n<h3>", "<title of the other run>", " - ", "<date>", "</h3>\n",
     "<contributions of ", Roster[other_log.eng_idx].name, ">", "\n" >>

\* lines 433-444 of the other run: its update request
OtherUpdateRequest(answer) ==
  [page_id |-> Roster[other_log.eng_idx].page_id,
   body |-> other_log.page.body \o OtherNewSection,
   version |-> other_log.page.version + 1,
   read |-> other_log.page,
   answer |-> answer]

\* lines 385-398: the other run enters update_engineer_pages
OtherEnter ==
  /\ other_log.pc = "idle"
  /\ Roster # << >>
  /\ other_log' = [other_log EXCEPT !.pc = "extract", !.eng_idx = 1]
  /\ UNCHANGED docs

\* lines 399-417: contributions, or the next roster entry
OtherExtract ==
  /\ other_log.pc = "extract"
  /\ \/ other_log' = [other_log EXCEPT !.pc = "read_page"]
     \/ OtherNextEngineer(other_log.sent)
  /\ UNCHANGED docs

\* lines 419-426: the read of the page
OtherRead ==
  /\ other_log.pc = "read_page"
  /\ \/ other_log' = [other_log EXCEPT
                        !.pc = "update_page",
                        !.page = docs[Roster[other_log.eng_idx].page_id]]
     \/ OtherNextEngineer(other_log.sent)
  /\ UNCHANGED docs

\* lines 428-445: the update of the page
OtherUpdate ==
  /\ other_log.pc = "update_page"
  /\ LET page_id == Roster[other_log.eng_idx].page_id
         req == OtherUpdateRequest("accepted")
     IN \/ \* the version is the page's next: the destination stores the page
           /\ req.version = docs[page_id].version + 1
           /\ docs' = [docs EXCEPT ![page_id] =
                         [body |-> req.body, version |-> req.version]]
           /\ OtherNextEngineer(Append(other_log.sent, req))
        \/ \* the version is not the page's next: a conflict
           /\ req.version # docs[page_id].version + 1
           /\ UNCHANGED docs
           /\ OtherNextEngineer(Append(other_log.sent,
                                       OtherUpdateRequest("conflict")))
        \/ \* rejected for another reason
           /\ UNCHANGED docs
           /\ OtherNextEngineer(Append(other_log.sent,
                                       OtherUpdateRequest("rejected")))

\* a step of the other run in update_engineer_pages
OtherRunLogs ==
  /\ OtherEnter \/ OtherExtract \/ OtherRead \/ OtherUpdate
  /\ UNCHANGED << pc, mainLocals, itemLocals, probeLocals, engLocals,
                  test_pages, issues, other_commits, space_titles, file_text,
                  api_key, now, other_pub, content, parsed, requests, report,
                  visited >>

(***************************************************************************)
(* The specifications.                                                     *)
(***************************************************************************)
\* the steps of the run
Run ==
  \/ ReadTranscript
  \/ GenerateSummary
  \/ CreateAtRoot
  \/ ListPages
  \/ TestCreate
  \/ DeleteTestPage
  \/ CreateUnderParent
  \/ NoValidParent
  \/ NoActionItems
  \/ SearchUser
  \/ CreateIssue
  \/ EnterUpdateLogs
  \/ ExtractContributions
  \/ ReadPage
  \/ UpdatePage

Next == Run \/ OtherWriterCommit

Spec == Init /\ [][Next]_vars

\* the run is one sequential process of blocking calls: whenever it has a
\* next step, it takes it
FairSpec == Spec /\ WF_vars(Run)

\* two runs publishing in the same space while the clock advances
ClockNext == Next \/ Tick \/ OtherRunPublish

ClockSpec == Init /\ [][ClockNext]_vars

\* a state in which main calls update_engineer_pages (line 623): a run over
\* the transcript 'hi' whose completion held the title Sync and no action
\* item and whose summary page was created at the root
LogInit ==
  /\ pc = "update_logs"
  /\ file_text = << " ", "h", "i", "\n" >>
  /\ api_key = TRUE
  /\ transcript = << "h", "i" >>
  /\ ai_result = ParseCompletion(WellFormed(0))
  /\ timestamp = Strftime(0)
  /\ confluence_link = LinkOf(PageData)
  /\ created_tickets = << >>
  /\ item_idx = 1
  /\ account_id = None
  /\ pages = << >>
  /\ page_idx = 0
  /\ valid_parent = None
  /\ eng_idx = 0
  /\ contributions = << >>
  /\ page = NoPage
  /\ docs = [id \in PageIds |-> InitialDoc(id)]
  /\ test_pages = {}
  /\ issues = << >>
  /\ other_commits = 0
  /\ space_titles = {TitleAt(ParseCompletion(WellFormed(0)).title, Strftime(0))}
  /\ now = 0
  /\ other_pub = NoPublish
  /\ other_log = OtherIdle
  /\ content = << >>
  /\ parsed = NoRecord
  /\ requests =
       << [kind |-> "completion", answer |-> "accepted"],
          [kind |-> "create_page",
           title |-> TitleAt(ParseCompletion(WellFormed(0)).title, Strftime(0)),
           content |->
             format_transcript_for_confluence(ParseCompletion(WellFormed(0))),
           ancestors |-> << >>, answer |-> "accepted", collision |-> FALSE] >>
  /\ report = << [line |-> "transcript_loaded"],
                 [line |-> "generated", items |-> 0],
                 [line |-> "page_created"], [line |-> "uploaded"],
                 [line |-> "no_action_items"] >>
  /\ visited = << "Parsing", "PublishingSummary", "CreatingWorkItems",
                  "UpdatingLogs" >>

\* the steps of the run in update_engineer_pages
RunLogs == EnterUpdateLogs \/ ExtractContributions \/ ReadPage \/ UpdatePage

\* two runs in update_engineer_pages, on the same engineer pages; the steps
\* of the other run touch the engineer pages alone, so they are taken from
\* the call of update_engineer_pages on
LogNext == RunLogs \/ OtherRunLogs

LogSpec == LogInit /\ [][LogNext]_vars

(***************************************************************************)
(* The parsing code alone (lines 166-221), applied to completion texts     *)
(* composed of an optional free line, an optional TITLE: line, an optional *)
(* SUMMARY: section and an optional ACTION ITEMS: section, in the layout   *)
(* the prompt asks for (lines 138-143).                                    *)
(***************************************************************************)
\* lines the ACTION ITEMS section of a text may hold, each with the item the
\* parsing code is to make of it (task << >>: no item)
ActionPool ==
  << [text |-> << "1", ".", " ", "F", "i", "x", " ", "b", "u", "g", " ", "|", " ", "A", "S", "S", "I", "G", "N", "E", "E", ":", " ", "M", "a", "y", "a" >>,
      task |-> << "F", "i", "x", " ", "b", "u", "g" >>, assignee |-> << "M", "a", "y", "a" >>],
     [text |-> << "2", ")", " ", "S", "h", "i", "p", " ", "i", "t", " ", "|", "A", "S", "S", "I", "G", "N", "E", "E", ":", " ", "G", "u", "y" >>,
      task |-> << "S", "h", "i", "p", " ", "i", "t" >>, assignee |-> << "G", "u", "y" >>],
     [text |-> << "-", " ", "W", "r", "i", "t", "e", " ", "d", "o", "c", "s" >>,
      task |-> << "W", "r", "i", "t", "e", " ", "d", "o", "c", "s" >>, assignee |-> None],
     [text |-> << "*", " ", "E", "m", "a", "i", "l", " ", "B", "o", "b" >>,
      task |-> << >>, assignee |-> None],
     [text |-> << "E", "m", "a", "i", "l", " ", "B", "o", "b" >>,
      task |-> << >>, assignee |-> None],
     [text |-> << "-" >>,
      task |-> << >>, assignee |-> None],
     [text |-> << "4", ")", " ", "F", "i", "x", " ", "a", ".", " ", "b" >>,
      task |-> << "b" >>, assignee |-> None],
     [text |-> << "5", ")", " ", "a", " ", "|", " ", "b", " ", "|", " ", "A", "S", "S", "I", "G", "N", "E", "E", ":", " ", "B", "o", "b" >>,
      task |-> << "a" >>, assignee |-> None],
     [text |-> << " ", " ", "6", ".", " ", "P", "a", "d", " ", "i", "t", " ", " " >>,
      task |-> << "P", "a", "d", " ", "i", "t" >>, assignee |-> None],
     [text |-> << "-", " ", "*", " ", "S", "t", "a", "r", " ", "d", "a", "s", "h" >>,
      task |-> << "S", "t", "a", "r", " ", "d", "a", "s", "h" >>, assignee |-> None],
     [text |-> << >>,
      task |-> << >>, assignee |-> None],
     [text |-> << "8", ".", " ", "|", " ", "A", "S", "S", "I", "G", "N", "E", "E", ":", " ", "B", "o", "b" >>,
      task |-> << >>, assignee |-> None],
     [text |-> << "3", ".", " ", "S", "e", "n", "d", " ", "v", "2", ")", " ", "n", "o", "w" >>,
      task |-> << "S", "e", "n", "d", " ", "v", "2", ")", " ", "n", "o", "w" >>, assignee |-> None],
     [text |-> << "7", ".", " ", "-", " ", "d", "a", "s", "h", "e", "d" >>,
      task |-> << "d", "a", "s", "h", "e", "d" >>, assignee |-> None],
     [text |-> << "2", ")", " ", "F", "i", "x", " ", "t", "h", "e", " ", "r", "e", "t", "r", "y", " ", "b", "u", "g", " ", "|", " ", "A", "S", "S", "I", "G", "N", "E", "E", ":", " ", "M", "a", "y", "a" >>,
      task |-> << "F", "i", "x", " ", "t", "h", "e", " ", "r", "e", "t", "r", "y", " ", "b", "u", "g" >>, assignee |-> << "M", "a", "y", "a" >>] >>

\* the TITLE: lines a text may hold, each with the title it carries
TitleLines ==
  << [text |-> << "T", "I", "T", "L", "E", ":", " ", "S", "y", "n", "c" >>,
      title |-> << "S", "y", "n", "c" >>],
     [text |-> << " ", "t", "i", "t", "l", "e", ":", " ", " ", "P", "l", "a", "n", " ", "Q", "3", " " >>,
      title |-> << "P", "l", "a", "n", " ", "Q", "3" >>] >>

\* the free lines a text may start with
Preambles == { << >>, << << "H", "e", "l", "l", "o", " ", "t", "e", "a", "m" >> >> }

\* the SUMMARY: sections a text may hold: none, an empty one, one of two
\* lines and a blank line
SummarySections ==
  { [present |-> FALSE, lines |-> << >>],
    [present |-> TRUE, lines |-> << >>],
    [present |-> TRUE, lines |-> << << " ", " " >> >>],
    [present |-> TRUE,
     lines |-> << << "<", "p", ">", "o", "k", "<", "/", "p", ">" >>, << >>,
                  << " ", "<", "l", "i", ">", "b", "<", "/", "l", "i", ">", " " >> >>] }

\* the texts before any line of an ACTION ITEMS section is added
ParserStarts ==
  [preamble : Preambles,
   title : {<< >>} \cup {<< TitleLines[i] >> : i \in DOMAIN TitleLines},
   summary : SummarySections,
   actions : {[present |-> FALSE, lines |-> << >>],
              [present |-> TRUE, lines |-> << >>]}]

\* the lines of a composed text, and the text
LinesOf(c) ==
  c.preamble
    \o [i \in 1..Len(c.title) |-> c.title[i].text]
    \o (IF c.summary.present
        THEN << << >>, KwSummary >> \o c.summary.lines
        ELSE << >>)
    \o (IF c.actions.present
        THEN << << >>, KwActionItems >>
               \o [i \in 1..Len(c.actions.lines) |-> c.actions.lines[i].text]
        ELSE << >>)

TextOf(c) == Join(LinesOf(c), NL)

ParserInit ==
  /\ pc = "compose"
  /\ content \in ParserStarts
  /\ parsed = NoRecord
  /\ file_text = << >>
  /\ api_key = TRUE
  /\ transcript = << >>
  /\ ai_result = NoRecord
  /\ confluence_link = None
  /\ created_tickets = << >>
  /\ item_idx = 0
  /\ account_id = None
  /\ pages = << >>
  /\ page_idx = 0
  /\ valid_parent = None
  /\ eng_idx = 0
  /\ contributions = << >>
  /\ page = NoPage
  /\ docs = [id \in PageIds |-> InitialDoc(id)]
  /\ test_pages = {}
  /\ issues = << >>
  /\ other_commits = 0
  /\ space_titles = {}
  /\ now = 0
  /\ timestamp = None
  /\ other_pub = NoPublish
  /\ other_log = OtherIdle
  /\ requests = << >>
  /\ report = << >>
  /\ visited = << >>

\* one more line in the ACTION ITEMS section of the text
AppendActionLine ==
  /\ pc = "compose"
  /\ content.actions.present
  /\ Len(content.actions.lines) < MaxActionLines
  /\ \E i \in DOMAIN ActionPool :
       content' = [content EXCEPT !.actions.lines = Append(@, ActionPool[i])]
  /\ UNCHANGED << pc, parsed, mainLocals, itemLocals, probeLocals, engLocals,
                  destination, file_text, api_key, now, other_pub, other_log,
                  requests, report, visited >>

\* lines 166-221 applied to the text
ParseContent ==
  /\ pc = "compose"
  /\ parsed' = ParseCompletion(TextOf(content))
  /\ pc' = "parsed"
  /\ UNCHANGED << content, mainLocals, itemLocals, probeLocals, engLocals,
                  destination, file_text, api_key, now, other_pub, other_log,
                  requests, report, visited >>

ParserNext == AppendActionLine \/ ParseContent

ParserSpec == ParserInit /\ [][ParserNext]_vars

(***************************************************************************)
(* Reading the history.                                                    *)
(***************************************************************************)
\* the positions of the requests of the kinds given, in the order sent
Sent(kinds) == {i \in DOMAIN requests : requests[i].kind \in kinds}

\* the requests of the kinds given, in the order sent
SentSeq(kinds) == SelectSeq(requests, LAMBDA r : r.kind \in kinds)

\* the stage whose code sends a request of the kind
StageOfKind(kind) ==
  CASE kind = "completion" -> "Parsing"
    [] kind \in {"create_page", "list_pages", "test_create", "delete_page"}
         -> "PublishingSummary"
    [] kind \in {"user_search", "create_issue"} -> "CreatingWorkItems"
    [] kind \in {"extract", "read_page", "update_page"} -> "UpdatingLogs"

\* the place of a stage in the order of the stages (0 before the first)
Rank(stage) ==
  CASE stage = Stages[1] -> 1
    [] stage = Stages[2] -> 2
    [] stage = Stages[3] -> 3
    [] stage = Stages[4] -> 4
    [] stage = Stages[5] -> 5
    [] OTHER -> 0

\* s is an initial segment of t
IsPrefix(s, t) == Len(s) <= Len(t) /\ SubSeq(t, 1, Len(s)) = s

\* the run has left the stage
Past(stage) == Rank(StageOf(pc)) > Rank(stage)

\* the transcript file holds text other than whitespace
NonEmptyTranscript == Strip(file_text) # << >>

(***************************************************************************)
(* C1.  A run started with a non-empty transcript passes through Parsing,  *)
(* PublishingSummary, CreatingWorkItems and UpdatingLogs and eventually    *)
(* reaches Done, whatever the external calls answer; the run ends early    *)
(* only on an empty transcript.  (Checked under FairSpec.)                 *)
(***************************************************************************)
C1_RunAlwaysCompletes ==
  /\ (pc = "read_transcript" /\ NonEmptyTranscript)
       ~> (pc = "done" /\ visited = Stages)
  /\ [](pc = "aborted" => ~NonEmptyTranscript)

\* a run that reached Done although the root creation, an issue creation and
\* a page read were rejected and a user was not found
C1_Witness ==
  /\ pc = "done"
  /\ visited = Stages
  /\ \E i \in Sent({"create_page"}) : requests[i].answer = "rejected"
  /\ \E i \in Sent({"create_issue"}) : requests[i].answer = "rejected"
  /\ \E i \in Sent({"user_search"}) : requests[i].found = None
  /\ \E i \in Sent({"read_page"}) : requests[i].answer = "rejected"

(***************************************************************************)
(* C2.  The stages run in the order Parsing, PublishingSummary,            *)
(* CreatingWorkItems, UpdatingLogs, Done, never backward: the stages       *)
(* entered are an initial segment of that order; every request sent        *)
(* belongs to a stage the run has entered; the requests sent are in stage  *)
(* order (each request's stage is not before its predecessor's, so no      *)
(* request of an earlier stage follows one of a later stage); no           *)
(* user search or issue creation is sent before the summary publish has    *)
(* finished; and no engineer page is read or updated before every action   *)
(* item has had its issue creation request.                                *)
(***************************************************************************)
C2_StagesInOrder ==
  /\ IsPrefix(visited, Stages)
  /\ \A i \in DOMAIN requests :
       Rank(StageOfKind(requests[i].kind)) <= Rank(StageOf(pc))
  /\ \A i \in 1..(Len(requests) - 1) :
       Rank(StageOfKind(requests[i].kind))
         <= Rank(StageOfKind(requests[i + 1].kind))
  /\ Sent({"user_search", "create_issue"}) # {}
       => /\ confluence_link # None
          /\ pc \notin {"create_root", "probe_list", "probe_test",
                        "probe_delete", "probe_return"}
  /\ Sent({"extract", "read_page", "update_page"}) # {}
       => Cardinality(Sent({"create_issue"})) = Len(ai_result.action_items)

\* a finished run that sent requests of every stage
C2_Witness ==
  /\ pc = "done"
  /\ Sent({"completion"}) # {}
  /\ Sent({"test_create"}) # {}
  /\ Cardinality(Sent({"create_issue"})) >= 2
  /\ Sent({"update_page"}) # {}

(***************************************************************************)
(* C3.  The summary page is first created at the space root (no            *)
(* ancestors); the probe (the page search) is started only right after a   *)
(* rejected root creation; a second creation is sent exactly when the      *)
(* probe found a parent, as a child of that parent, and it is the last; so *)
(* at most two creation requests are ever sent.  Once the publish has      *)
(* returned, the link is N/A exactly when the last creation was rejected   *)
(* or no parent was found, and the run goes on to the action items.        *)
(***************************************************************************)
C3_PublishProtocol ==
  LET creates == SentSeq({"create_page"})
      accepted_tests == {i \in Sent({"test_create"}) :
                           requests[i].answer = "accepted"}
  IN /\ Len(creates) <= 2
     /\ creates # << >> => creates[1].ancestors = << >>
     /\ \A i \in Sent({"list_pages"}) :
          /\ i > 1
          /\ requests[i - 1].kind = "create_page"
          /\ requests[i - 1].ancestors = << >>
          /\ requests[i - 1].answer = "rejected"
     /\ Len(creates) = 2 =>
          /\ creates[1].answer = "rejected"
          /\ \E i \in accepted_tests :
               creates[2].ancestors = << requests[i].parent >>
     /\ Past("PublishingSummary") =>
          /\ pc # "aborted"
          /\ (accepted_tests # {}) <=> (Len(creates) = 2)
          /\ Len(creates) >= 1
          /\ (confluence_link = NotAvailable)
               <=> (creates[Len(creates)].answer = "rejected")
          /\ (confluence_link # NotAvailable)
               => confluence_link = LinkOf(PageData)

\* the publish failed after the creation under the parent found was rejected
\* too, and the run went on
C3_Witness ==
  /\ pc = "work_items"
  /\ confluence_link = NotAvailable
  /\ Len(SentSeq({"create_page"})) = 2
  /\ SentSeq({"create_page"})[2].ancestors # << >>

(***************************************************************************)
(* C4.  find_valid_parent_pages tests the pages of the listing in listing  *)
(* order, one test creation each; every test creation but the last sent    *)
(* was rejected (an accepted one is followed by no other, a rejected one   *)
(* by the next page's); when it returns, it returns the page of the        *)
(* accepted test creation, and None only after every listed page was       *)
(* rejected (none at all when the listing is empty or the search failed).  *)
(***************************************************************************)
C4_ProbeReturnsFirstWritable ==
  LET tests == SentSeq({"test_create"})
      lists == SentSeq({"list_pages"})
      listing == IF lists = << >> THEN << >> ELSE lists[1].listing
  IN /\ Len(lists) <= 1
     /\ Len(tests) <= Len(listing)
     /\ \A j \in 1..Len(tests) :
          /\ tests[j].parent = listing[j].id
          /\ j < Len(tests) => tests[j].answer = "rejected"
     /\ pc = "probe_return" =>
          IF tests # << >> /\ tests[Len(tests)].answer = "accepted"
          THEN valid_parent = tests[Len(tests)].parent
          ELSE valid_parent = None /\ Len(tests) = Len(listing)

\* the probe returned the second page listed after the first was rejected
C4_Witness ==
  /\ pc = "probe_return"
  /\ Len(pages) >= 2
  /\ valid_parent = pages[2].id
  /\ SentSeq({"test_create"})[1].answer = "rejected"

\* the probe returned None after every page listed was rejected
C4_WitnessExhausted ==
  /\ pc = "probe_return"
  /\ Len(pages) >= 2
  /\ valid_parent = None
  /\ Len(SentSeq({"test_create"})) = Len(pages)

(***************************************************************************)
(* C5.  Every action item of the record gets its issue creation request,   *)
(* in item order, whether or not the user search or the issue creation of  *)
(* an earlier item failed and whether or not the summary publish failed:   *)
(* the j-th issue creation request sent is item j's, the loop is at item   *)
(* number (requests sent + 1), and when the stage is left there are as     *)
(* many requests as items.                                                 *)
(***************************************************************************)
C5_EveryItemAttempted ==
  LET issue_reqs == SentSeq({"create_issue"})
  IN /\ \A j \in 1..Len(issue_reqs) : issue_reqs[j].item = j
     /\ pc \in {"work_items", "create_issue"}
          /\ ai_result.action_items # << >>
          => Len(issue_reqs) = item_idx - 1
     /\ Past("CreatingWorkItems")
          => Len(issue_reqs) = Len(ai_result.action_items)

\* item 2's request was sent although the publish failed, item 1's user was
\* not found and item 1's creation was rejected
C5_Witness ==
  LET issue_reqs == SentSeq({"create_issue"})
  IN /\ confluence_link = NotAvailable
     /\ Len(issue_reqs) >= 2
     /\ issue_reqs[1].answer = "rejected"
     /\ issue_reqs[2].item = 2
     /\ \E i \in Sent({"user_search"}) :
          requests[i].item = 1 /\ requests[i].found = None

(***************************************************************************)
(* C6.  An item that names an assignee has its user search sent right      *)
(* before its issue creation request; the request carries no assignee when *)
(* the search found no account (it failed or listed no user) and exactly   *)
(* the account id found otherwise; an item without an assignee carries     *)
(* none; every user search is followed by that item's issue creation       *)
(* request; and the run prints as many "could not find user" lines as      *)
(* searches found no account.                                              *)
(***************************************************************************)
C6_UnresolvedAssigneeLeftUnassigned ==
  /\ \A i \in Sent({"create_issue"}) :
       LET r == requests[i]
           item == ai_result.action_items[r.item]
       IN IF Truthy(item.assignee)
          THEN /\ i > 1
               /\ requests[i - 1].kind = "user_search"
               /\ requests[i - 1].item = r.item
               /\ requests[i - 1].query = item.assignee
               /\ r.assignee = requests[i - 1].found
               /\ r.assignee # None
                    => r.assignee = Directory(item.assignee)[1].accountId
          ELSE r.assignee = None
  /\ \A i \in Sent({"user_search"}) :
       IF i < Len(requests)
       THEN /\ requests[i + 1].kind = "create_issue"
            /\ requests[i + 1].item = requests[i].item
       ELSE pc = "create_issue"
  /\ Len(SelectSeq(report, LAMBDA l : l.line = "could_not_find_user"))
       = Cardinality({i \in Sent({"user_search"}) : requests[i].found = None})

\* item 1's user was not found and its request, without an assignee, was
\* accepted; item 2's user was found and its request carries the account id
C6_Witness ==
  LET issue_reqs == SentSeq({"create_issue"})
  IN /\ Len(issue_reqs) >= 2
     /\ Truthy(ai_result.action_items[1].assignee)
     /\ issue_reqs[1].assignee = None
     /\ issue_reqs[1].answer = "accepted"
     /\ issue_reqs[2].assignee # None
     /\ Len(SelectSeq(report, LAMBDA l : l.line = "could_not_find_user")) = 1

(***************************************************************************)
(* C7.  Every update request for an engineer page follows the accepted     *)
(* read of that page in the same iteration, carries the version read plus  *)
(* exactly one, and carries the body read followed by the new section (the *)
(* heading with the meeting title and the date, then the contributions).   *)
(***************************************************************************)
C7_UpdateCarriesNextVersion ==
  \A i \in Sent({"update_page"}) :
    LET r == requests[i]
        name == (CHOOSE e \in {Roster[k] : k \in 1..Len(Roster)} :
                   e.page_id = r.page_id).name
        section == << "\n<h3>" >> \o ai_result.title
                     \o << " - ", "<date>", "</h3>\n" >>
                     \o << "<contributions of ", name, ">" >> \o << "\n" >>
    IN /\ i > 1
       /\ requests[i - 1].kind = "read_page"
       /\ requests[i - 1].page_id = r.page_id
       /\ requests[i - 1].answer = "accepted"
       /\ r.version = requests[i - 1].read.version + 1
       /\ IsPrefix(requests[i - 1].read.body, r.body)
       /\ r.body = requests[i - 1].read.body \o section

\* an update request for the second engineer's page, read at version 2
C7_Witness ==
  \E i \in Sent({"update_page"}) :
    /\ requests[i].page_id = Roster[2].page_id
    /\ requests[i - 1].read.version = 2
    /\ requests[i].version = 3
    /\ requests[i].answer = "accepted"

(***************************************************************************)
(* C8.  When the destination rejects an engineer page update because the   *)
(* version sent is not the page's next, the run records a conflict, not a  *)
(* success, for that engineer, and the page stored is not the body sent.   *)
(***************************************************************************)
C8_StaleUpdateReportedAsConflict ==
  \A i \in Sent({"update_page"}) :
    requests[i].answer = "conflict" =>
      LET name == (CHOOSE e \in {Roster[k] : k \in 1..Len(Roster)} :
                     e.page_id = requests[i].page_id).name
      IN /\ \E l \in DOMAIN report :
              report[l].line = "conflict" /\ report[l].name = name
         /\ ~\E l \in DOMAIN report :
              report[l].line = "updated" /\ report[l].name = name
         /\ docs[requests[i].page_id].body # requests[i].body

\* the part of C8 the destination decides: an update answered with a
\* conflict, or rejected, leaves every engineer page as it was
C8_RejectedUpdateLeavesPage ==
  [][(pc = "update_page" /\ pc' # "update_page"
        /\ requests'[Len(requests')].answer # "accepted")
       => docs' = docs]_vars

(***************************************************************************)
(* C9.  With a transcript that is empty once stripped, the run ends before *)
(* Parsing: no stage is entered, no request of any kind is sent and the    *)
(* destination is left as it was.                                          *)
(***************************************************************************)
C9_EmptyTranscriptEndsRun ==
  ~NonEmptyTranscript =>
    /\ pc \in {"read_transcript", "aborted"}
    /\ requests = << >>
    /\ visited = << >>
    /\ issues = << >>
    /\ test_pages = {}
    /\ docs = [id \in PageIds |-> InitialDoc(id)]

\* the run ended on a transcript file that holds only whitespace
C9_Witness ==
  /\ pc = "aborted"
  /\ file_text # << >>
  /\ requests = << >>

(***************************************************************************)
(* C10.  With a record of zero action items, the CreatingWorkItems stage   *)
(* sends no user search and no issue creation, the run records no created  *)
(* issue and no failure, and the run still goes through UpdatingLogs to    *)
(* Done.  (Checked under FairSpec.)                                        *)
(***************************************************************************)
C10_NoItemsIsNoOp ==
  /\ []((ai_result.action_items = << >>
           /\ Rank(StageOf(pc)) >= Rank("CreatingWorkItems"))
        => /\ Sent({"user_search", "create_issue"}) = {}
           /\ created_tickets = << >>
           /\ issues = << >>
           /\ \A l \in DOMAIN report :
                report[l].line \notin {"ticket_created", "ticket_failed",
                                       "tickets_created", "assigning",
                                       "could_not_find_user"}
           /\ Past("CreatingWorkItems") =>
                \E l \in DOMAIN report : report[l].line = "no_action_items")
  /\ (pc = "work_items" /\ ai_result.action_items = << >>)
       ~> (pc = "done" /\ visited = Stages)

\* a run with no action items that updated an engineer page and is done
C10_Witness ==
  /\ pc = "done"
  /\ ai_result.action_items = << >>
  /\ visited = Stages
  /\ \E i \in Sent({"update_page"}) : requests[i].answer = "accepted"

(***************************************************************************)
(* C11.  Any two runs generate different titles for their summary pages    *)
(* (also two runs whose records carry the same meeting title), and no      *)
(* creation request of either run is rejected because the space already    *)
(* holds a page of its title.                                              *)
(***************************************************************************)
C11_RepeatedRunsNeverCollide ==
  /\ (timestamp # None /\ other_pub.title # None)
       => unique_title(ai_result) # other_pub.title
  /\ \A i \in Sent({"create_page"}) : ~requests[i].collision
  /\ ~other_pub.collision

(***************************************************************************)
(* C12.  Within one run no request is sent twice for the same target: at   *)
(* most one summary completion, one page search, one user search and one   *)
(* issue creation per action item, one extraction, one read and one update *)
(* per roster person, one test creation and one deletion per listed page;  *)
(* the only second attempt is the second summary page creation, which is   *)
(* sent under the parent found after the creation at the root was rejected.*)
(***************************************************************************)
C12_NoRetries ==
  LET Once(kind, Target(_)) ==
        Cardinality({Target(requests[i]) : i \in Sent({kind})})
          = Cardinality(Sent({kind}))
      ItemOf(r) == r.item
      PageOf(r) == r.page_id
      ParentOf(r) == r.parent
      NameOf(r) == r.name
      creates == SentSeq({"create_page"})
  IN /\ Cardinality(Sent({"completion"})) <= 1
     /\ Cardinality(Sent({"list_pages"})) <= 1
     /\ Once("user_search", ItemOf)
     /\ Once("create_issue", ItemOf)
     /\ Once("extract", NameOf)
     /\ Once("read_page", PageOf)
     /\ Once("update_page", PageOf)
     /\ Once("test_create", ParentOf)
     /\ Once("delete_page", ParentOf)
     /\ Len(creates) <= 2
     /\ Len(creates) = 2 =>
          /\ creates[1].ancestors = << >>
          /\ creates[1].answer = "rejected"
          /\ creates[2].ancestors # << >>

\* a finished run in which the root creation, a test creation, an issue
\* creation, a page read and a page update were rejected, none sent again
C12_Witness ==
  /\ pc = "done"
  /\ Len(SentSeq({"create_page"})) = 2
  /\ \E i \in Sent({"test_create"}) : requests[i].answer = "rejected"
  /\ \E i \in Sent({"create_issue"}) : requests[i].answer = "rejected"
  /\ \E i \in Sent({"read_page"}) : requests[i].answer = "rejected"
  /\ \E i \in Sent({"update_page"}) : requests[i].answer = "rejected"

(***************************************************************************)
(* Reading the texts given to the parsing code.                            *)
(***************************************************************************)
\* a text of a TITLE: line, a SUMMARY: section and an ACTION ITEMS: section
WellFormedInput(c) ==
  /\ c.preamble = << >>
  /\ Len(c.title) = 1
  /\ c.summary.present
  /\ c.actions.present

\* the line is not blank
NonBlank(l) == Strip(l.text) # << >>

\* the line, stripped, starts with a digit or a dash and holds a task
ItemLine(l) ==
  LET t == Strip(l.text)
  IN /\ t # << >>
     /\ t[1] \in Digits \cup {"-"}
     /\ l.task # << >>

C14_ParserFallsBack ==
  pc = "parsed" =>
    /\ DOMAIN parsed = {"title", "summary_html", "action_items"}
    /\ content.title = << >> => parsed.title = DefaultTitle
    /\ (\A i \in DOMAIN content.summary.lines :
          Strip(content.summary.lines[i]) = << >>)
         => parsed.summary_html = TextOf(content)
    /\ ~content.actions.present => parsed.action_items = << >>

\* a text with no TITLE: line and no SUMMARY: section, parsed into the
\* placeholder title, the whole text as the summary, and an item
C14_Witness ==
  /\ pc = "parsed"
  /\ content.preamble # << >>
  /\ content.title = << >>
  /\ ~content.summary.present
  /\ parsed.title = DefaultTitle
  /\ parsed.summary_html = TextOf(content)
  /\ Len(parsed.summary_html) > 20
  /\ Len(parsed.action_items) = 1

(***************************************************************************)
(* C16.  With the destination storing an update only when its version is   *)
(* the page's next, two runs interleaving their reads and updates of the   *)
(* engineer pages leave every page append-only: the body of every update   *)
(* stored so far is a prefix of the page's body, the page's version is its *)
(* first version plus the number of updates stored, every step leaves the  *)
(* body it finds as a prefix and adds one to the version when it changes   *)
(* the page, and an update sent after a read that is no longer the page    *)
(* is answered without being stored.                                       *)
(***************************************************************************)
\* the updates of the page stored so far, of the run and of the other run
StoredOfRun(id) ==
  {k \in DOMAIN requests :
     /\ requests[k].kind = "update_page"
     /\ requests[k].page_id = id
     /\ requests[k].answer = "accepted"}

StoredOfOther(id) ==
  {k \in DOMAIN other_log.sent :
     /\ other_log.sent[k].page_id = id
     /\ other_log.sent[k].answer = "accepted"}

AppendOnly ==
  \A id \in PageIds :
    /\ \A k \in StoredOfRun(id) : IsPrefix(requests[k].body, docs[id].body)
    /\ \A k \in StoredOfOther(id) :
         IsPrefix(other_log.sent[k].body, docs[id].body)
    /\ IsPrefix(InitialDoc(id).body, docs[id].body)
    /\ docs[id].version =
         InitialDoc(id).version + Cardinality(StoredOfRun(id))
           + Cardinality(StoredOfOther(id))

AppendOnlyStep ==
  /\ \A id \in PageIds :
       /\ IsPrefix(docs[id].body, docs'[id].body)
       /\ docs'[id] # docs[id] =>
            /\ docs'[id].version = docs[id].version + 1
            /\ Len(docs'[id].body) > Len(docs[id].body)
  /\ \* the run's update after a stale read
     (pc = "update_page" /\ requests' # requests
        /\ page # docs[Roster[eng_idx].page_id]) =>
       /\ docs' = docs
       /\ requests'[Len(requests')].answer = "conflict"
            \/ requests'[Len(requests')].answer = "rejected"
  /\ \* the other run's update after a stale read
     (other_log.pc = "update_page" /\ other_log' # other_log
        /\ other_log.page # docs[Roster[other_log.eng_idx].page_id]) =>
       /\ docs' = docs
       /\ other_log'.sent[Len(other_log'.sent)].answer \in
            {"conflict", "rejected"}

C16_InterleavedRunsAppendOnly == []AppendOnly /\ [][AppendOnlyStep]_vars

\* both runs read one page at the same version and the other run's update
\* was stored, the run's answered with a conflict; on another page it was
\* the run's update that was stored and the other run's that was not
C16_Witness ==
  \E id1, id2 \in PageIds :
    /\ id1 # id2
    /\ \E k \in DOMAIN requests, j \in StoredOfOther(id1) :
         /\ requests[k].kind = "update_page"
         /\ requests[k].page_id = id1
         /\ requests[k].answer = "conflict"
         /\ requests[k].version = other_log.sent[j].version
    /\ \E k \in StoredOfRun(id2), j \in DOMAIN other_log.sent :
         /\ other_log.sent[j].page_id = id2
         /\ other_log.sent[j].answer = "conflict"
         /\ other_log.sent[j].version = requests[k].version
    /\ Len(docs[id1].body) > Len(InitialDoc(id1).body)
    /\ Len(docs[id2].body) > Len(InitialDoc(id2).body)

(***************************************************************************)
(* C15.  When find_valid_parent_pages returns, with a page id or with      *)
(* None, no test page that it created is left in the space, whatever the   *)
(* answers to its delete requests.                                         *)
(***************************************************************************)
C15_NoTestPageLeft ==
  pc = "probe_return" => test_pages = {}

(***************************************************************************)
(* The requests of update_engineer_pages for one roster entry.             *)
(***************************************************************************)
\* the extractions answered with NONE in the text
SentinelExtractions ==
  {k \in DOMAIN requests :
     requests[k].kind = "extract" /\ requests[k].answer = "NONE"}

\* the page of the roster entry of that name
PageOf(name) ==
  Roster[CHOOSE e \in 1..Len(Roster) : Roster[e].name = name].page_id

\* the requests of a kind sent for a page
RequestsFor(kind, page_id) ==
  {j \in DOMAIN requests :
     requests[j].kind = kind /\ requests[j].page_id = page_id}

(***************************************************************************)
(* C17 as stated.  For a roster entry whose extraction is answered with    *)
(* NONE, the entry's page is read before the entry is left, and no update  *)
(* request is sent for that page.                                          *)
(***************************************************************************)
C17_SentinelSkippedAfterRead ==
  \A k \in SentinelExtractions :
    /\ RequestsFor("read_page", PageOf(requests[k].name)) # {}
    /\ RequestsFor("update_page", PageOf(requests[k].name)) = {}

(***************************************************************************)
(* C17 as amended.  For a roster entry whose extraction is answered with   *)
(* NONE, the entry is left right after the extraction: the run is at the   *)
(* next entry's extraction or at its end, and neither a read request nor   *)
(* an update request is ever sent for that entry's page.                   *)
(***************************************************************************)
C17_SentinelSkippedBeforeRead ==
  \A k \in SentinelExtractions :
    /\ RequestsFor("read_page", PageOf(requests[k].name)) = {}
    /\ RequestsFor("update_page", PageOf(requests[k].name)) = {}
    /\ k = Len(requests) =>
         /\ pc \in {"extract", "done"}
         /\ page = NoPage
         /\ pc = "extract" => Roster[eng_idx].name # requests[k].name

\* the first roster entry was answered NONE and left, and the second
\* entry's page was read and updated
C17_Witness ==
  /\ Len(Roster) >= 2
  /\ \E k \in SentinelExtractions : requests[k].name = Roster[1].name
  /\ RequestsFor("read_page", Roster[1].page_id) = {}
  /\ \E j \in RequestsFor("update_page", Roster[2].page_id) :
       requests[j].answer = "accepted"
  /\ pc = "done"

(***************************************************************************)
(* C18.  Without OPENAI_API_KEY the run sends no completion request and no *)
(* extraction request, its record is the placeholder record with no action *)
(* item, it still sends the creation request of the summary page (with the *)
(* placeholder's title and content), it sends no user search and no issue  *)
(* creation request and creates no issue, and it sends no read and no      *)
(* update request for an engineer page.                                    *)
(***************************************************************************)
\* the kinds of the requests sent so far
KindsSent == {requests[k].kind : k \in DOMAIN requests}

C18_NoKeyDegradesToPlaceholder ==
  ~api_key =>
    /\ KindsSent \cap {"completion", "extract", "user_search", "create_issue",
                        "read_page", "update_page"} = {}
    /\ pc \notin {"read_transcript", "generate", "aborted"} =>
         /\ ai_result = NoKeyRecord
         /\ ai_result.action_items = << >>
    /\ issues = << >> /\ created_tickets = << >>
    /\ pc \in {"work_items", "update_logs", "done"} =>
         /\ Len(requests) >= 1
         /\ requests[1].kind = "create_page"
         /\ requests[1].title = TitleAt(DefaultTitle, timestamp)
         /\ requests[1].content = format_transcript_for_confluence(NoKeyRecord)
    /\ pc \notin {"extract", "read_page", "update_page", "create_issue"}

\* a run without the key, ended after its summary page was created
C18_Witness ==
  /\ ~api_key
  /\ pc = "done"
  /\ ai_result = NoKeyRecord
  /\ \E k \in DOMAIN requests :
       requests[k].kind = "create_page" /\ requests[k].answer = "accepted"
  /\ confluence_link = LinkOf(PageData)
  /\ "UpdatingLogs" \in {visited[i] : i \in DOMAIN visited}

(***************************************************************************)
(* C19.  The issue creation requests are sent in the order of the action   *)
(* items of the record: each is for an item of the record and carries its  *)
(* task, a later request is for a later item (so an item has at most one   *)
(* request and at most one ticket), and created_tickets holds the keys of  *)
(* the issues created, in the order of their items.                        *)
(***************************************************************************)
\* the issue creation requests sent so far
IssueRequests == {k \in DOMAIN requests : requests[k].kind = "create_issue"}

C19_IssuesInItemOrder ==
  /\ \A k \in IssueRequests :
       /\ requests[k].item \in DOMAIN ai_result.action_items
       /\ requests[k].summary =
            TicketSummary(ai_result.action_items[requests[k].item].task)
  /\ \A k, j \in IssueRequests :
       k < j => requests[k].item < requests[j].item
  /\ Len(created_tickets) = Len(issues)
  /\ \A n \in DOMAIN issues :
       /\ created_tickets[n] = IssueKey(n)
       /\ \E k \in IssueRequests :
            requests[k] = issues[n] /\ requests[k].answer = "accepted"
  /\ \A n, m \in DOMAIN issues : n < m => issues[n].item < issues[m].item
  /\ Cardinality({k \in IssueRequests : requests[k].answer = "accepted"})
       = Len(issues)

\* two items, a ticket for each: the keys in the order of the items
C19_Witness ==
  /\ pc = "done"
  /\ Len(ai_result.action_items) = 2
  /\ created_tickets = << IssueKey(1), IssueKey(2) >>
  /\ issues[1].item = 1 /\ issues[2].item = 2
  /\ issues[1].summary # issues[2].summary

(***************************************************************************)
(* C20.  The description of every issue creation request ends with the     *)
(* link of the summary page created in this run when a creation request of *)
(* the summary page was accepted, and with 'N/A' when none was; it is      *)
(* 'N/A' only then.                                                        *)
(***************************************************************************)
\* a creation request of the summary page was accepted
PublishSucceeded ==
  \E k \in DOMAIN requests :
    requests[k].kind = "create_page" /\ requests[k].answer = "accepted"

\* the text of a description after 'Meeting notes: '
MeetingNotesOf(description) ==
  LET marker == "\n\nMeeting notes: "
      at == CHOOSE i \in DOMAIN description : description[i] = marker
  IN SubSeq(description, at + 1, Len(description))

LeadingDigits(t) ==
  CHOOSE n \in 0..Len(t) :
    /\ \A i \in 1..n : t[i] \in Digits
    /\ n < Len(t) => t[n + 1] \notin Digits

\* the length of the prefix "N. ", "N) " or "- " the text starts with, 0
\* when it starts with none
PrefixLen(t) ==
  LET d == LeadingDigits(t)
  IN IF StartsWith(t, << "-", " " >>) THEN 2
     ELSE IF d >= 1 /\ Len(t) >= d + 2 /\ t[d + 1] \in {".", ")"}
               /\ t[d + 2] = " "
     THEN d + 2
     ELSE 0

\* the text holds '| ASSIGNEE:' or '|ASSIGNEE:'
Marked(t) == Contains(t, MarkerSpaced) \/ Contains(t, MarkerTight)

\* the line starts with a prefix and holds no marker
PrefixedUnmarked(l) ==
  PrefixLen(Strip(l.text)) > 0 /\ ~Marked(Strip(l.text))

\* the line with its prefix alone removed
Deprefixed(l) == From(Strip(l.text), PrefixLen(Strip(l.text)))

(***************************************************************************)
(* C21.  For a text whose ACTION ITEMS section holds lines that start with *)
(* a prefix "N. ", "N) " or "- " and hold no assignee marker, the items    *)
(* parsed are, line by line, the line with that prefix alone removed as    *)
(* the task (whatever the rest holds: ". ", ") ", leading dashes or        *)
(* asterisks) and None as the assignee.                                    *)
(***************************************************************************)
C21_UnmarkedLineKeepsTask ==
  (/\ pc = "parsed"
   /\ content.actions.present
   /\ \A k \in DOMAIN content.actions.lines :
        PrefixedUnmarked(content.actions.lines[k])) =>
    parsed.action_items =
      [k \in DOMAIN content.actions.lines |->
         [task |-> Deprefixed(content.actions.lines[k]), assignee |-> None]]

(***************************************************************************)
(* Reading a line that holds the assignee marker: the text before the      *)
(* marker and the text after its ASSIGNEE: label.                          *)
(***************************************************************************)
\* the marker the text holds first, with its position
FirstMarker(t) ==
  LET a == Find(t, MarkerSpaced)
      b == Find(t, MarkerTight)
  IN IF a # 0 /\ (b = 0 \/ a < b)
     THEN [at |-> a, len |-> Len(MarkerSpaced)]
     ELSE [at |-> b, len |-> Len(MarkerTight)]

\* the text before the marker, its numbering removed, stripped
TaskBeforeMarker(l) ==
  LET t == Strip(l.text)
      before == SubSeq(t, 1, FirstMarker(t).at - 1)
  IN Strip(From(before, PrefixLen(before)))

\* the text after the ASSIGNEE: label of the marker, stripped
AssigneeAfterMarker(l) ==
  LET t == Strip(l.text)
  IN Strip(From(t, FirstMarker(t).at - 1 + FirstMarker(t).len))

\* the line holds a marker, with a task before it
MarkedLine(l) == Marked(Strip(l.text)) /\ TaskBeforeMarker(l) # << >>

(***************************************************************************)
(* C22.  For a text whose ACTION ITEMS section holds lines with the marker *)
(* '| ASSIGNEE:' or '|ASSIGNEE:' after a task, the items parsed are, line  *)
(* by line, the stripped text before the marker without its numbering as   *)
(* the task and the stripped text after the ASSIGNEE: label as the         *)
(* assignee, also when the task itself holds a pipe before the marker.     *)
(***************************************************************************)
C22_MarkerSplitsTaskAndAssignee ==
  (/\ pc = "parsed"
   /\ content.actions.present
   /\ \A k \in DOMAIN content.actions.lines :
        MarkedLine(content.actions.lines[k])) =>
    parsed.action_items =
      [k \in DOMAIN content.actions.lines |->
         [task |-> TaskBeforeMarker(content.actions.lines[k]),
          assignee |-> AssigneeAfterMarker(content.actions.lines[k])]]

====
